---------------------------- MODULE Spec2Model ----------------------------
(***************************************************************************)
(* A model of bmi_adv_python.py: the BMI calculation, the JSON history     *)
(* store (BMIHistory) and the thread / Tk-callback choreography of         *)
(* AdvancedBMICalculator.                                                   *)
(*                                                                         *)
(* Floats are modelled as exact rationals n/d plus the two non-finite      *)
(* behaviours the code can meet on user input: NaN (float("nan")) and a    *)
(* positive value so small that its square underflows to 0.0               *)
(* (float("1e-200")).  A raised Python exception is a value whose kind k   *)
(* is the exception's class name.                                          *)
(***************************************************************************)
EXTENDS Integers, Sequences, FiniteSets, TLC

(* ------------------------------ bounds -------------------------------- *)
\* calculation requests that pass validation (threads started) in one run
MaxRequests == 2
\* length of the log a run may start with
PriorLen == 10
\* BMI values swept by the classification check, in thousandths:
\* -MaxBmi1000 .. MaxBmi1000
MaxBmi1000 == 36000
\* weights (kg) and heights (cm) swept by the calculation check:
\* 0 .. MaxWeight and MinHeight .. MaxHeight
MaxWeight == 120
MinHeight == 165
MaxHeight == 200
\* longest log swept by the load_history check
MaxLogLen == 3

(* ------------------------- program constants -------------------------- *)
\* history[-10:] in update_chart
ChartN == 10

(* ------------------------------ floats -------------------------------- *)
Fin(n, d) == [k |-> "fin", n |-> n, d |-> d]
NaN == [k |-> "nan", n |-> 0, d |-> 1]
Tiny == [k |-> "tiny", n |-> 0, d |-> 1]
None == [k |-> "None", n |-> 0, d |-> 1]
Exc(name) == [k |-> name, n |-> 0, d |-> 1]
IsExc(x) == x.k \in {"ValueError", "ZeroDivisionError"}

\* the text of an entry: a decimal integer literal, or any other string
Num(n) == [s |-> "int", n |-> n]
Txt(s) == [s |-> s, n |-> 0]

\* the texts a user types into the weight and the height entry
WeightInputs == {Txt("abc"), Num(0), Num(70)}
HeightInputs == {Txt(""), Num(-5), Num(175), Txt("nan"), Txt("1e-200")}

\* Python's float(str)
float(t) ==
    CASE t.s = "int" -> Fin(t.n, 1)
      [] t.s = "nan" -> NaN
      [] t.s = "1e-200" -> Tiny
      [] OTHER -> Exc("ValueError")

\* x <= 0 : every comparison with NaN is False, 1e-200 is positive
LeZero(x) == x.k = "fin" /\ x.n <= 0

\* a < b and a <= b on floats (False when either side is NaN)
Lt(a, b) == a.k = "fin" /\ b.k = "fin" /\ a.n * b.d < b.n * a.d
Le(a, b) == a.k = "fin" /\ b.k = "fin" /\ a.n * b.d <= b.n * a.d

\* x / 100
DivBy100(x) == IF x.k = "fin" THEN Fin(x.n, x.d * 100) ELSE x

\* x ** 2 : the square of 1e-202 underflows to 0.0
Square(x) ==
    IF x.k = "fin" THEN Fin(x.n * x.n, x.d * x.d)
    ELSE IF x.k = "tiny" THEN Fin(0, 1)
    ELSE x

\* a / b for b a square: float division by 0.0 raises whatever a is
TrueDiv(a, b) ==
    IF b.k = "fin" /\ b.n = 0 THEN Exc("ZeroDivisionError")
    ELSE IF a.k = "nan" \/ b.k = "nan" THEN NaN
    ELSE IF a.k = "tiny" THEN Tiny
    ELSE Fin(a.n * b.d, a.d * b.n)

\* the integer nearest to n/d (d > 0), ties to the even one
RoundHalfEven(n, d) ==
    LET q == n \div d
        r == n % d
    IN  IF 2 * r < d THEN q
        ELSE IF 2 * r > d THEN q + 1
        ELSE IF q % 2 = 0 THEN q ELSE q + 1

\* round(x, 2): a float with two decimals, kept as hundredths.  CPython rounds
\* the binary double, which differs from this only where the exact quotient
\* lies half-way between two hundredths (weight 24, height 160: 9.375); no
\* pair of entries used below is such a tie.
round2(x) ==
    IF x.k = "fin" THEN Fin(RoundHalfEven(100 * x.n, x.d), 100)
    ELSE IF x.k = "tiny" THEN Fin(0, 100)
    ELSE x


\* BMIProcessor.calculate_bmi_process: the try block, None on any exception
calculate_bmi_process(weight, height) ==
    LET height_in_meters == DivBy100(height)
        bmi == TrueDiv(weight, Square(height_in_meters))
    IN  IF IsExc(bmi) THEN None ELSE round2(bmi)

(* ------------------------- get_bmi_category --------------------------- *)
\* a faulty get_bmi_category: each breakpoint is given to the band below it
get_bmi_category_low(bmi) ==
    IF Le(bmi, Fin(185, 10))
        THEN [category |-> "Underweight", color |-> "lightblue", message |-> "UNDERWEIGHT"]
    ELSE IF Le(bmi, Fin(25, 1))
        THEN [category |-> "Normal Weight", color |-> "green", message |-> "NORMAL WEIGHT"]
    ELSE IF Le(bmi, Fin(30, 1))
        THEN [category |-> "Overweight", color |-> "orange", message |-> "OVERWEIGHT"]
    ELSE IF Le(bmi, Fin(35, 1))
        THEN [category |-> "Obese", color |-> "red", message |-> "OBESE"]
    ELSE [category |-> "Severely Obese", color |-> "darkred", message |-> "SEVERELY OBESE"]

\* (category, color, status message); the message is the category's fixed text
get_bmi_category(bmi) ==
    IF Lt(bmi, Fin(185, 10))
        THEN [category |-> "Underweight", color |-> "lightblue", message |-> "UNDERWEIGHT"]
    ELSE IF Le(Fin(185, 10), bmi) /\ Lt(bmi, Fin(25, 1))
        THEN [category |-> "Normal Weight", color |-> "green", message |-> "NORMAL WEIGHT"]
    ELSE IF Le(Fin(25, 1), bmi) /\ Lt(bmi, Fin(30, 1))
        THEN [category |-> "Overweight", color |-> "orange", message |-> "OVERWEIGHT"]
    ELSE IF Le(Fin(30, 1), bmi) /\ Lt(bmi, Fin(35, 1))
        THEN [category |-> "Obese", color |-> "red", message |-> "OBESE"]
    ELSE [category |-> "Severely Obese", color |-> "darkred", message |-> "SEVERELY OBESE"]

(* --------------------------- the backing file ------------------------- *)
\* bmi_history.json: kind is what the path holds ("missing": no such file,
\* "empty": zero bytes, "corrupt": bytes that are no JSON document, "json": a
\* JSON array, data), mode is what the process may do with it ("rw", "r": no
\* write permission, "none": neither read nor write permission).
File(kind, data, mode) == [kind |-> kind, data |-> data, mode |-> mode]

\* a record of the log as a run may find it on disk, k records before the newest
PriorRecord(k) ==
    [timestamp |-> 0 - k, weight |-> Fin(70, 1), height |-> Fin(175, 1),
     bmi |-> Fin(2286, 100), category |-> "Normal Weight"]
PriorLog(len) == [j \in 1..len |-> PriorRecord(len - j)]

\* os.path.exists(filename)
os_path_exists(f) == f.kind # "missing"

\* open(filename, mode): the exception it raises, or the handle's content, and
\* the file afterwards ('w' creates or truncates it before anything is written)
open(f, mode) ==
    IF mode = "r" THEN
        IF f.kind = "missing" THEN [exc |-> "FileNotFoundError", file |-> f]
        ELSE IF f.mode = "none" THEN [exc |-> "PermissionError", file |-> f]
        ELSE [exc |-> "", file |-> f]
    ELSE
        IF f.mode # "rw" THEN [exc |-> "PermissionError", file |-> f]
        ELSE [exc |-> "", file |-> File("empty", <<>>, "rw")]

\* json.load(f): the parsed array, or JSONDecodeError
json_load(f) ==
    IF f.kind = "json" THEN [exc |-> "", value |-> f.data]
    ELSE [exc |-> "JSONDecodeError", value |-> <<>>]

\* json.dump(history, f) and the close of the with block, on a handle opened
\* with 'w' and standing at offset 0.  When another writer has stored a longer
\* document since this handle truncated the file, the shorter document
\* overwrites only its head and the bytes left behind are no JSON document.
json_dump(history, f) ==
    IF f.kind = "json" /\ Len(f.data) > Len(history)
        THEN File("corrupt", <<>>, f.mode)
        ELSE File("json", history, f.mode)

(* ------------------------------ BMIHistory ---------------------------- *)
\* the try block of BMIHistory.load_history: the exception that leaves it, or
\* the value it returns, and the file afterwards
load_history_try(f) ==
    IF os_path_exists(f) THEN
        LET o == open(f, "r")
            j == json_load(o.file)
        IN  IF o.exc # "" THEN [exc |-> o.exc, value |-> <<>>, file |-> o.file]
            ELSE [exc |-> j.exc, value |-> j.value, file |-> o.file]
    ELSE [exc |-> "", value |-> <<>>, file |-> f]

\* a faulty load_history: no except clause, the exception leaves the method
load_history_uncaught(f) ==
    LET t == load_history_try(f)
    IN  IF t.exc # ""
            THEN [raised |-> TRUE, logged |-> FALSE, value |-> <<>>, file |-> t.file]
            ELSE [raised |-> FALSE, logged |-> FALSE, value |-> t.value, file |-> t.file]

\* BMIHistory.load_history: except Exception logs and returns []
load_history(f) ==
    LET t == load_history_try(f)
    IN  IF t.exc # ""
            THEN [raised |-> FALSE, logged |-> TRUE, value |-> <<>>, file |-> t.file]
            ELSE [raised |-> FALSE, logged |-> FALSE, value |-> t.value, file |-> t.file]

(* ------------------------------- state -------------------------------- *)
VARIABLES
    file,             \* bmi_history.json
    log,              \* the ERROR lines written through logging.error
    current_bmi, current_category,
    bmi_result, category_result, status_label,   \* the three result labels
    progress,         \* TRUE while the progress bar runs
    chart_visible,
    chart,            \* the points the axes plot
    afterq,           \* callbacks handed to root.after(0, ...), oldest first
    calc,             \* the _calculate_in_thread threads, by request number
    save,             \* the save_task threads, by request number
    file0,            \* history: the file as the run found it
    was_present,      \* history: every <<position, record>> the file has held
    delivered,        \* history: what _update_ui_results showed for a request
    refreshed,        \* history: the file the chart refresh of a request read and
                      \* the points it plotted
    cleared,          \* history: "cleared" once clear_inputs ran, "repopulated" once a
                      \* result was shown after it, "no" from the next request on
    probe             \* argument and result of a function applied on its own

appvars == <<file, log, current_bmi, current_category, bmi_result,
             category_result, status_label, progress, chart_visible, chart,
             afterq, calc, save, file0, was_present, delivered, refreshed,
             cleared>>
vars == <<appvars, probe>>

Requests == 1..MaxRequests
NoRefresh == [k |-> "none", file |-> File("missing", <<>>, "rw"), plotted |-> <<>>]
NoResult ==
    [k |-> "none", bmi |-> None, category |-> "", color |-> "", message |-> ""]
NoRecord ==
    [timestamp |-> 0, weight |-> None, height |-> None, bmi |-> None, category |-> ""]
NoCategory == [category |-> "", color |-> "", message |-> ""]
NoProbe == [k |-> "none"]

\* the <<position, record>> pairs of a log
Positions(history) == {<<p, history[p]>> : p \in 1..Len(history)}

\* s[-n:]
LastN(n, s) == IF Len(s) <= n THEN s ELSE SubSeq(s, Len(s) - n + 1, Len(s))

\* the files a run may find: none, garbage, a log of PriorLen records, the
\* same log write-protected, the same log unreadable
InitialFiles ==
    {File("missing", <<>>, "rw"), File("corrupt", <<>>, "rw"),
     File("json", PriorLog(PriorLen), "rw"), File("json", PriorLog(PriorLen), "r"),
     File("json", PriorLog(PriorLen), "none")}

\* AdvancedBMICalculator.__init__ and create_gui
AppInit(f) ==
    /\ file = f
    /\ file0 = f
    /\ log = {}
    /\ current_bmi = None
    /\ current_category = "None"
    /\ bmi_result = None
    /\ category_result = "--"
    /\ status_label = ""
    /\ progress = FALSE
    /\ chart_visible = FALSE
    /\ chart = <<>>
    /\ afterq = <<>>
    /\ calc = [i \in Requests |->
                 [pc |-> "none", weight |-> None, height |-> None,
                  bmi_rounded |-> None, category |-> NoCategory, raised |-> FALSE]]
    /\ save = [i \in Requests |->
                 [pc |-> "none", data |-> NoRecord, history |-> <<>>, failed |-> FALSE]]
    /\ was_present = IF f.kind = "json" THEN Positions(f.data) ELSE {}
    /\ delivered = [i \in Requests |-> NoResult]
    /\ refreshed = [i \in Requests |-> NoRefresh]
    /\ cleared = "no"

Init ==
    /\ \E f \in InitialFiles : AppInit(f)
    /\ probe = NoProbe

(* ------------------------- the interactive thread --------------------- *)
\* an entry of the Tk timer queue: the callback and the values its closure holds
Callback(cb, req, result) == [cb |-> cb, req |-> req, result |-> result]

\* threads started so far; the next thread is number Started + 1
Started == Cardinality({i \in Requests : calc[i].pc # "none"})

\* AdvancedBMICalculator.calculate_bmi on the entry texts ws and hs
calculate_bmi(ws, hs) ==
    LET weight == float(ws)
        height == float(hs)
        id == Started + 1
    IN  /\ cleared' = "no"
        /\ IF IsExc(weight) \/ IsExc(height) THEN
               \* messagebox.showerror("Error", "Please enter valid numbers")
               UNCHANGED <<progress, status_label, calc>>
           ELSE IF LeZero(weight) \/ LeZero(height) THEN
               \* messagebox.showerror("Error", "Please enter valid positive values")
               UNCHANGED <<progress, status_label, calc>>
           ELSE
               /\ Started < MaxRequests
               /\ progress' = TRUE
               /\ status_label' = "Calculating BMI..."
               /\ calc' = [calc EXCEPT ![id] =
                             [pc |-> "run", weight |-> weight, height |-> height,
                              bmi_rounded |-> None, category |-> NoCategory,
                              raised |-> FALSE]]
        /\ UNCHANGED <<file, log, current_bmi, current_category, bmi_result,
                       category_result, chart_visible, chart, afterq, save,
                       file0, was_present, delivered, refreshed, probe>>

\* a faulty clear_inputs: current_category is not reset
clear_inputs_partial ==
    /\ bmi_result' = None
    /\ category_result' = "--"
    /\ status_label' = ""
    /\ progress' = FALSE
    /\ current_bmi' = None
    /\ cleared' = "cleared"
    /\ UNCHANGED <<file, log, current_category, chart_visible, chart, afterq, calc,
                   save, file0, was_present, delivered, refreshed, probe>>

\* AdvancedBMICalculator.clear_inputs (current_category is a text in the model
\* and its None is written "None")
clear_inputs ==
    /\ bmi_result' = None
    /\ category_result' = "--"
    /\ status_label' = ""
    /\ progress' = FALSE
    /\ current_bmi' = None
    /\ current_category' = "None"
    /\ cleared' = "cleared"
    /\ UNCHANGED <<file, log, chart_visible, chart, afterq, calc, save,
                   file0, was_present, delivered, refreshed, probe>>

\* a faulty chart: history[:10], the first ChartN records
ChartPoints_first(history) ==
    LET recent_history == IF Len(history) <= ChartN THEN history
                          ELSE SubSeq(history, 1, ChartN)
    IN  [p \in 1..Len(recent_history) |->
           [date |-> recent_history[p].timestamp, bmi |-> recent_history[p].bmi]]

\* the points update_chart plots for a loaded history: the last ChartN records
ChartPoints(history) ==
    LET recent_history == LastN(ChartN, history)
    IN  [p \in 1..Len(recent_history) |->
           [date |-> recent_history[p].timestamp, bmi |-> recent_history[p].bmi]]

\* AdvancedBMICalculator.update_chart: the chart, the log lines and the file
\* it leaves; an exception out of load_history is caught before ax.clear()
update_chart(f, old_chart) ==
    LET r == load_history(f)
    IN  IF r.raised
            THEN [chart |-> old_chart, lines |-> {"Chart update error"},
                  file |-> r.file]
            ELSE [chart |-> ChartPoints(r.value),
                  lines |-> IF r.logged THEN {"History load error"} ELSE {},
                  file |-> r.file]

\* AdvancedBMICalculator.toggle_chart: show_chart (with its update_chart) or
\* hide_chart
toggle_chart ==
    /\ IF ~chart_visible THEN
           LET u == update_chart(file, <<>>)
           IN  /\ chart_visible' = TRUE
               /\ chart' = u.chart
               /\ log' = log \cup u.lines
               /\ file' = u.file
       ELSE
           /\ chart_visible' = FALSE
           /\ UNCHANGED <<chart, log, file>>
    /\ UNCHANGED <<current_bmi, current_category, bmi_result,
                   category_result, status_label, progress, afterq, calc, save,
                   file0, was_present, delivered, refreshed, cleared, probe>>

\* AdvancedBMICalculator._update_ui_results, run by the event loop
RunUpdateUiResults ==
    /\ afterq # <<>>
    /\ Head(afterq).cb = "_update_ui_results"
    /\ LET c == Head(afterq)
       IN  /\ progress' = FALSE
           /\ bmi_result' = c.result.bmi
           /\ category_result' = c.result.category
           /\ status_label' = c.result.message
           /\ current_bmi' = c.result.bmi
           /\ current_category' = c.result.category
           /\ delivered' = [delivered EXCEPT ![c.req] = c.result]
    /\ cleared' = IF cleared = "cleared" THEN "repopulated" ELSE cleared
    /\ afterq' = Tail(afterq)
    /\ UNCHANGED <<file, log, chart_visible, chart, calc, save, file0,
                   was_present, refreshed, probe>>

\* the update_chart queued by _calculate_in_thread, run by the event loop
RunUpdateChart ==
    /\ afterq # <<>>
    /\ Head(afterq).cb = "update_chart"
    /\ LET c == Head(afterq)
           u == update_chart(file, chart)
       IN  /\ chart' = u.chart
           /\ log' = log \cup u.lines
           /\ file' = u.file
           /\ refreshed' = [refreshed EXCEPT ![c.req] =
                               [k |-> "ran", file |-> file, plotted |-> u.chart]]
    /\ afterq' = Tail(afterq)
    /\ UNCHANGED <<current_bmi, current_category, bmi_result,
                   category_result, status_label, progress, chart_visible, calc,
                   save, file0, was_present, delivered, cleared, probe>>

\* the messagebox.showerror queued by the except clause of
\* _calculate_in_thread, run by the event loop
RunShowError ==
    /\ afterq # <<>>
    /\ Head(afterq).cb = "showerror"
    /\ afterq' = Tail(afterq)
    /\ UNCHANGED <<file, log, current_bmi, current_category, bmi_result,
                   category_result, status_label, progress, chart_visible, chart,
                   calc, save, file0, was_present, delivered, refreshed, cleared,
                   probe>>

(* ----------------------- _calculate_in_thread ------------------------- *)
\* a faulty calculation: the quotient is cut to two decimals, not rounded
ThreadBmi_truncated(weight, height) ==
    LET height_in_meters == DivBy100(height)
        bmi == TrueDiv(weight, Square(height_in_meters))
    IN  IF IsExc(bmi) THEN bmi
        ELSE IF bmi.k = "fin" THEN Fin((100 * bmi.n) \div bmi.d, 100)
        ELSE round2(bmi)

\* lines 272-274: the BMI as the thread computes it, or the exception raised
ThreadBmi(weight, height) ==
    LET height_in_meters == DivBy100(height)
        bmi == TrueDiv(weight, Square(height_in_meters))
    IN  IF IsExc(bmi) THEN bmi ELSE round2(bmi)

\* what the lambda of line 280 hands to _update_ui_results
UiResult(bmi_rounded, cat) ==
    [k |-> "result", bmi |-> bmi_rounded, category |-> cat.category,
     color |-> cat.color, message |-> cat.message]

\* the record of lines 283-289, stamped by the clock reading now
Record(now, weight, height, bmi_rounded, category) ==
    [timestamp |-> now, weight |-> weight, height |-> height,
     bmi |-> bmi_rounded, category |-> category]

\* datetime.now(): a clock that has ticked once for every record made so far
Now == 1 + Cardinality({i \in Requests : save[i].pc # "none"})

\* the thread up to root.after (line 280), or, when the arithmetic raises,
\* its except clause (lines 296-298)
CalcRun(i) ==
    /\ calc[i].pc = "run"
    /\ LET bmi_rounded == ThreadBmi(calc[i].weight, calc[i].height)
           cat == get_bmi_category(bmi_rounded)
       IN  IF IsExc(bmi_rounded) THEN
               /\ log' = log \cup {"Calculation thread error"}
               /\ afterq' = Append(afterq, Callback("showerror", i, NoResult))
               /\ calc' = [calc EXCEPT ![i].pc = "done", ![i].raised = TRUE]
           ELSE
               /\ afterq' = Append(afterq,
                              Callback("_update_ui_results", i, UiResult(bmi_rounded, cat)))
               /\ calc' = [calc EXCEPT ![i].pc = "save",
                                       ![i].bmi_rounded = bmi_rounded,
                                       ![i].category = cat]
               /\ UNCHANGED log
    /\ UNCHANGED <<file, current_bmi, current_category, bmi_result,
                   category_result, status_label, progress, chart_visible, chart,
                   save, file0, was_present, delivered, refreshed, cleared, probe>>

\* BMIHistory.save_to_history: the save_task thread it starts
save_to_history(data) ==
    [pc |-> "load", data |-> data, history |-> <<>>, failed |-> FALSE]

\* the thread's lines 283-290: the record and save_to_history(record)
CalcSave(i) ==
    /\ calc[i].pc = "save"
    /\ save' = [save EXCEPT ![i] =
                  save_to_history(Record(Now, calc[i].weight, calc[i].height,
                                         calc[i].bmi_rounded, calc[i].category.category))]
    /\ calc' = [calc EXCEPT ![i].pc = "chart"]
    /\ UNCHANGED <<file, log, current_bmi, current_category, bmi_result,
                   category_result, status_label, progress, chart_visible, chart,
                   afterq, file0, was_present, delivered, refreshed, cleared, probe>>

\* the thread's lines 293-294: queue update_chart when the chart is visible
CalcChart(i) ==
    /\ calc[i].pc = "chart"
    /\ afterq' = IF chart_visible
                     THEN Append(afterq, Callback("update_chart", i, NoResult))
                     ELSE afterq
    /\ calc' = [calc EXCEPT ![i].pc = "done"]
    /\ UNCHANGED <<file, log, current_bmi, current_category, bmi_result,
                   category_result, status_label, progress, chart_visible, chart,
                   save, file0, was_present, delivered, refreshed, cleared, probe>>

(* ------------------------------ save_task ----------------------------- *)
\* a faulty except clause of save_task: the exception is swallowed unlogged
SaveErrorLines_silent == {}

\* the log lines of save_task's except clause (line 58)
SaveErrorLines == {"History save error"}

\* lines 52-53: history = self.load_history(); history.append(data)
SaveLoad(i) ==
    /\ save[i].pc = "load"
    /\ LET r == load_history(file)
       IN  /\ file' = r.file
           /\ IF r.raised THEN
                  /\ log' = log \cup SaveErrorLines
                  /\ save' = [save EXCEPT ![i].pc = "done", ![i].failed = TRUE]
              ELSE
                  /\ log' = log \cup (IF r.logged THEN {"History load error"} ELSE {})
                  /\ save' = [save EXCEPT ![i].pc = "open",
                                          ![i].history = Append(r.value, save[i].data)]
    /\ UNCHANGED <<current_bmi, current_category, bmi_result,
                   category_result, status_label, progress, chart_visible, chart,
                   afterq, calc, file0, was_present, delivered, refreshed, cleared,
                   probe>>

\* line 54: open(self.filename, 'w')
SaveOpen(i) ==
    /\ save[i].pc = "open"
    /\ LET o == open(file, "w")
       IN  /\ file' = o.file
           /\ IF o.exc # "" THEN
                  /\ log' = log \cup SaveErrorLines
                  /\ save' = [save EXCEPT ![i].pc = "done", ![i].failed = TRUE]
              ELSE
                  /\ save' = [save EXCEPT ![i].pc = "dump"]
                  /\ UNCHANGED log
    /\ UNCHANGED <<current_bmi, current_category, bmi_result,
                   category_result, status_label, progress, chart_visible, chart,
                   afterq, calc, file0, was_present, delivered, refreshed, cleared,
                   probe>>

\* line 55 and the end of the with block: json.dump(history, f)
SaveDump(i) ==
    /\ save[i].pc = "dump"
    /\ file' = json_dump(save[i].history, file)
    /\ was_present' = was_present \cup
                        (IF file'.kind = "json" THEN Positions(file'.data) ELSE {})
    /\ save' = [save EXCEPT ![i].pc = "done"]
    /\ UNCHANGED <<log, current_bmi, current_category, bmi_result,
                   category_result, status_label, progress, chart_visible, chart,
                   afterq, calc, file0, delivered, refreshed, cleared, probe>>

(* --------------------------- specifications --------------------------- *)
Next ==
    \/ \E ws \in WeightInputs, hs \in HeightInputs : calculate_bmi(ws, hs)
    \/ clear_inputs
    \/ toggle_chart
    \/ RunUpdateUiResults
    \/ RunUpdateChart
    \/ RunShowError
    \/ \E i \in Requests : CalcRun(i)
    \/ \E i \in Requests : CalcSave(i)
    \/ \E i \in Requests : CalcChart(i)
    \/ \E i \in Requests : SaveLoad(i)
    \/ \E i \in Requests : SaveOpen(i)
    \/ \E i \in Requests : SaveDump(i)

Spec == Init /\ [][Next]_vars

\* the program when the user only asks for calculations: Clear and Show Chart
\* are never pressed
NextCalc ==
    \/ \E ws \in WeightInputs, hs \in HeightInputs : calculate_bmi(ws, hs)
    \/ RunUpdateUiResults
    \/ RunShowError
    \/ \E i \in Requests : CalcRun(i)
    \/ \E i \in Requests : CalcSave(i)
    \/ \E i \in Requests : CalcChart(i)
    \/ \E i \in Requests : SaveLoad(i)
    \/ \E i \in Requests : SaveOpen(i)
    \/ \E i \in Requests : SaveDump(i)

SpecCalc == Init /\ [][NextCalc]_vars

\* the same, with the Tk main loop running: a callback at the head of the
\* timer queue is eventually run
FairSpecCalc ==
    SpecCalc /\ WF_vars(RunUpdateUiResults) /\ WF_vars(RunShowError)

\* the program when the user asks for calculations and presses Clear, on a run
\* that finds no history file
InitClear ==
    /\ AppInit(File("missing", <<>>, "rw"))
    /\ probe = NoProbe

NextClear ==
    \/ NextCalc
    \/ clear_inputs

SpecClear == InitClear /\ [][NextClear]_vars

\* the program when the user asks for calculations on valid entries and toggles
\* the chart, on a run that finds no file or a writable log
InitChart ==
    /\ \E f \in {File("missing", <<>>, "rw"), File("json", PriorLog(PriorLen), "rw")} :
          AppInit(f)
    /\ probe = NoProbe

NextChart ==
    \/ calculate_bmi(Num(70), Num(175))
    \/ toggle_chart
    \/ RunUpdateUiResults
    \/ RunUpdateChart
    \/ \E i \in Requests : CalcRun(i)
    \/ \E i \in Requests : CalcSave(i)
    \/ \E i \in Requests : CalcChart(i)
    \/ \E i \in Requests : SaveLoad(i)
    \/ \E i \in Requests : SaveOpen(i)
    \/ \E i \in Requests : SaveDump(i)

SpecChart == InitChart /\ [][NextChart]_vars

\* one calculation request on integer entries, on a run that finds no file
InitGrid ==
    /\ AppInit(File("missing", <<>>, "rw"))
    /\ probe = NoProbe

NextGrid ==
    \/ /\ Started = 0
       /\ \E w \in 0..MaxWeight, h \in MinHeight..MaxHeight :
             calculate_bmi(Num(w), Num(h))
    \/ RunUpdateUiResults
    \/ \E i \in Requests : CalcRun(i)
    \/ \E i \in Requests : CalcSave(i)
    \/ \E i \in Requests : CalcChart(i)
    \/ \E i \in Requests : SaveLoad(i)
    \/ \E i \in Requests : SaveOpen(i)
    \/ \E i \in Requests : SaveDump(i)

SpecGrid == InitGrid /\ [][NextGrid]_vars

\* get_bmi_category applied on its own to each BMI value of a sweep
InitCategory ==
    /\ AppInit(File("missing", <<>>, "rw"))
    /\ \E c \in (0 - MaxBmi1000)..MaxBmi1000 :
          probe = [k |-> "bmi", arg |-> Fin(c, 1000), ret |-> NoCategory]

Classify ==
    /\ probe.k = "bmi"
    /\ probe.ret = NoCategory
    /\ probe' = [probe EXCEPT !.ret = get_bmi_category(probe.arg)]
    /\ UNCHANGED appvars

SpecCategory == InitCategory /\ [][Classify]_vars

\* load_history applied on its own to each file of a sweep
LoadRecords == {PriorRecord(k) : k \in 0..2}
Logs(len) == UNION {[1..n -> LoadRecords] : n \in 0..len}
LoadFiles ==
    {File("missing", <<>>, "rw")}
    \cup {File(kind, <<>>, mode) : kind \in {"empty", "corrupt"}, mode \in {"rw", "r", "none"}}
    \cup {File("json", data, mode) : data \in Logs(MaxLogLen), mode \in {"rw", "r", "none"}}

InitLoad ==
    /\ \E f \in LoadFiles : AppInit(f)
    /\ probe = [k |-> "load"]

LoadHistory ==
    /\ probe.k = "load"
    /\ LET r == load_history(file)
       IN  /\ probe' = [k |-> "loaded", raised |-> r.raised, value |-> r.value]
           /\ file' = r.file
           /\ log' = log \cup (IF r.logged THEN {"History load error"} ELSE {})
    /\ UNCHANGED <<current_bmi, current_category, bmi_result, category_result,
                   status_label, progress, chart_visible, chart, afterq, calc,
                   save, file0, was_present, delivered, refreshed, cleared>>

SpecLoad == InitLoad /\ [][LoadHistory]_vars

(* ------------------------------- claims ------------------------------- *)
\* the bands of the specification's table: cut at 18.5, 25, 30 and 35, a
\* breakpoint belonging to the band above it
Breakpoints == <<Fin(185, 10), Fin(25, 1), Fin(30, 1), Fin(35, 1)>>
Bands == <<"Underweight", "Normal Weight", "Overweight", "Obese", "Severely Obese">>
BandOf(bmi) ==
    Bands[1 + Cardinality({b \in DOMAIN Breakpoints : Le(Breakpoints[b], bmi)})]

\* C2: get_bmi_category gives every BMI value the one band of the table that
\* holds it, a breakpoint going to the higher band.
C2_CategoryPartition ==
    (probe.k = "bmi" /\ probe.ret # NoCategory)
        => /\ probe.ret.category \in {Bands[b] : b \in DOMAIN Bands}
           /\ probe.ret.category = BandOf(probe.arg)

\* the classification of the breakpoint 25.0 has been computed
C2_Witness ==
    /\ probe.k = "bmi"
    /\ probe.arg = Fin(25000, 1000)
    /\ probe.ret.category = "Overweight"

IsPositive(x) == (x.k = "fin" /\ x.n > 0 /\ x.d > 0) \/ x.k = "tiny"

Abs(n) == IF n < 0 THEN 0 - n ELSE n

\* b is weight / (height/100)^2 rounded to two decimals: b is c/100 for the
\* integer c nearest to 100 * weight / (height/100)^2, the even one on a tie
IsRoundedBmi(b, weight, height) ==
    LET num == 1000000 * weight.n * height.d * height.d
        den == weight.d * height.n * height.n
        c == b.n
    IN  /\ b.k = "fin"
        /\ b.d = 100
        /\ 2 * Abs(num - c * den) <= den
        /\ (2 * Abs(num - c * den) = den => c % 2 = 0)

\* the callbacks of request i that wait in the Tk queue to show its result
PendingResults(i) ==
    {afterq[p].result : p \in {q \in DOMAIN afterq :
                                  afterq[q].cb = "_update_ui_results" /\ afterq[q].req = i}}

HandedRecords ==
    [t \in 1..Cardinality({i \in Requests : save[i].pc # "none"}) |->
       save[CHOOSE i \in Requests :
               save[i].pc # "none" /\ save[i].data.timestamp = t].data]

\* every record handed to the store so far has a positive finite weight and height
RecordsValid ==
    \A i \in Requests :
        save[i].pc # "none"
            => /\ save[i].data.weight.k = "fin" /\ save[i].data.weight.n > 0
               /\ save[i].data.height.k = "fin" /\ save[i].data.height.n > 0

\* no save task is running
SavesFinished == \A i \in Requests : save[i].pc \in {"none", "done"}

\* C1: once N >= 1 calls of save_to_history have been made one after another
\* and their save tasks have finished, load_history returns the log the run
\* started with followed by the N records in the order of the calls (stated
\* for records of valid entries and a file the process may read and write).
C1_SequentialAppends ==
    (SavesFinished /\ Len(HandedRecords) >= 1 /\ RecordsValid /\ file0.mode = "rw")
        => load_history(file).value = load_history(file0).value \o HandedRecords

\* a number: the float of a numeric text that is no NaN
IsNumber(x) == x.k \in {"fin", "tiny"}

\* C3: a request whose weight or height is not a number or not positive
\* starts no calculation thread.
C3_InvalidRejected ==
    \A i \in Requests :
        calc[i].pc # "none"
            => /\ IsNumber(calc[i].weight) /\ IsPositive(calc[i].weight)
               /\ IsNumber(calc[i].height) /\ IsPositive(calc[i].height)

\* C4: while the file holds a log, every record it ever held is still in it
\* at the same position (stated for records of valid entries and a file the
\* process may read and write).
C4_AppendOnly ==
    (file.kind = "json" /\ file.mode = "rw" /\ RecordsValid)
        => \A pr \in was_present :
              pr[1] <= Len(file.data) /\ file.data[pr[1]] = pr[2]

\* no calculation is in flight: no thread runs and no callback of a thread
\* waits to show its outcome
NoCalculationInFlight ==
    /\ \A i \in Requests : calc[i].pc \in {"none", "done"}
    /\ \A p \in DOMAIN afterq : afterq[p].cb \notin {"_update_ui_results", "showerror"}

\* C9: the progress indicator does not run once no calculation is in flight.
C9_ProgressStopped == NoCalculationInFlight => ~progress

\* the result of request i has been shown, or its callback waits in the Tk queue
ResultHandedOver(i) == delivered[i] # NoResult \/ PendingResults(i) # {}

ResultIndependentOfStore ==
    \A i \in Requests :
        /\ (calc[i].pc \in {"save", "chart", "done"} /\ ~calc[i].raised)
              => /\ ResultHandedOver(i)
                 /\ \A u \in PendingResults(i) \cup ({delivered[i]} \ {NoResult}) :
                       u = UiResult(calc[i].bmi_rounded, calc[i].category)
        /\ (save[i].pc = "done" /\ save[i].failed)
              => /\ "History save error" \in log
                 /\ ~calc[i].raised
                 /\ \A p \in DOMAIN afterq :
                       ~(afterq[p].cb = "showerror" /\ afterq[p].req = i)

RefreshPending(i) ==
    \E p \in DOMAIN afterq : afterq[p].cb = "update_chart" /\ afterq[p].req = i

\* the point of request i's record is among the points its refresh plotted
RecordPlotted(i) ==
    \E p \in DOMAIN refreshed[i].plotted :
        refreshed[i].plotted[p] =
            [date |-> save[i].data.timestamp, bmi |-> save[i].data.bmi]

\* the log a file holds for a reader: its array, or nothing when it cannot be
\* read or parsed
StoredLog(f) == IF f.kind = "json" /\ f.mode # "none" THEN f.data ELSE <<>>

\* C8 as first stated: the chart refresh queued by a calculation plots a log
\* that holds the record just computed.
C8_RefreshShowsNewRecord ==
    \A i \in Requests : refreshed[i].k = "ran" => RecordPlotted(i)

\* C8: the chart refresh of a calculation is queued only after
\* save_to_history has been called for its record (the save task started, not
\* necessarily finished), and it plots the last 10 records of the log as the
\* file holds it when the refresh runs.
C8_BestEffortRefresh ==
    \A i \in Requests :
        /\ (RefreshPending(i) \/ refreshed[i].k = "ran") => save[i].pc # "none"
        /\ refreshed[i].k = "ran"
              => LET stored == StoredLog(refreshed[i].file)
                     plotted == refreshed[i].plotted
                     skipped == Len(stored) - Len(plotted)
                 IN  /\ Len(plotted) = IF Len(stored) < ChartN THEN Len(stored) ELSE ChartN
                     /\ \A p \in DOMAIN plotted :
                           plotted[p] = [date |-> stored[skipped + p].timestamp,
                                         bmi |-> stored[skipped + p].bmi]

\* a refresh has run on a log of more than 10 records that holds the record of
\* the calculation that queued it
C8_Witness ==
    \E i \in Requests :
        /\ refreshed[i].k = "ran"
        /\ Len(StoredLog(refreshed[i].file)) > ChartN
        /\ RecordPlotted(i)

\* the result fields as clear_inputs leaves them
ResultCleared ==
    /\ current_bmi = None
    /\ current_category = "None"
    /\ bmi_result = None
    /\ category_result = "--"
    /\ status_label = ""

\* C10 as first stated: from clear_inputs until the next calculation request
\* the result stays cleared.
C10_ClearedUntilNextRequest ==
    cleared \in {"cleared", "repopulated"} => ResultCleared

\* C10: from clear_inputs until the next calculation request or the next run
\* of _update_ui_results, whichever comes first, the result stays cleared.
C10_ClearedUntilDelivery ==
    cleared = "cleared" => ResultCleared

\* clear_inputs has run while the result of a calculation waits in the Tk queue
C10_Witness ==
    /\ cleared = "cleared"
    /\ \E i \in Requests : PendingResults(i) # {}
    /\ \E i \in Requests : delivered[i] # NoResult

=============================================================================
